---------------------------- MODULE Spec2Model ----------------------------
(***************************************************************************)
(* The five sorting algorithms of interface_classes.py and the three       *)
(* strategy contexts (SorterABC, SorterProto, SorterCallable), as a state  *)
(* machine with one action per loop iteration / call / return.             *)
(*                                                                         *)
(* Lists are heap objects: heap maps a reference to the list it holds.     *)
(* Python indices are kept 0-based; At(s, i) reads s[i].                   *)
(***************************************************************************)
EXTENDS Integers, Sequences, FiniteSets

\* ------------------------------------------------------------------ bounds
\* The longest input; there are as many distinct items as positions.
MaxLen == 3

Items == 1..MaxLen
\* The largest key a key function returns: at least two keys, so that it makes ties.
MaxKey == 1
KeyVals == 0..MaxKey

\* ------------------------------------------------------- values and helpers
\* The outcome of applying a key function to an item: <<v>> is the key v,
\* <<>> is a raised exception.
Raises == <<>>
KeyOutcomes == {Raises} \cup {<<v>> : v \in KeyVals}
KeyFns == [Items -> KeyOutcomes]

\* The `key` argument: <<>> is None, <<f>> is the function f.
NoKey == <<>>

SeqsUpTo(S, m) == UNION {[1..l -> S] : l \in 0..m}
Inputs == SeqsUpTo(Items, MaxLen)

At(s, i) == s[i + 1]
Put(s, i, v) == [s EXCEPT ![i + 1] = v]
Slice(s, lo, hi) == SubSeq(s, lo + 1, hi)

_identity == [x \in Items |-> <<x>>]

\* Mutant of _normalize_key: the key argument is ignored.
_normalize_key_ignored(key) == _identity

_normalize_key(key) == IF key = NoKey THEN _identity ELSE key[1]

\* Mutants of _should_swap: the comparison of the ascending order turned
\* around, the reverse flag ignored, and equal keys swapped too.
_should_swap_ascending_flipped(a_key, b_key, rev) == a_key < b_key
_should_swap_reverse_ignored(a_key, b_key, rev) == a_key > b_key
_should_swap_on_ties(a_key, b_key, rev) == IF rev THEN a_key <= b_key ELSE a_key >= b_key

_should_swap(a_key, b_key, rev) == IF rev THEN a_key < b_key ELSE a_key > b_key

\* Mutant of list: no copy is made, items is the caller's list.
list_aliased(ref) == ref

\* list(data): the reference of the new list object that holds the copy.
list(ref) == "items"

Algorithms == {"bubble_sort", "selection_sort", "insertion_sort", "merge_sort", "quick_sort"}

\* ------------------------------------------------------------------- state
VARIABLES
    heap,      \* reference -> list; "data" is the caller's sequence
    key,       \* the key argument of the call
    reverse,   \* the reverse argument of the call
    algo,      \* the algorithm that is running (or ran last)
    status,    \* "idle", "running", "returned", "raised"
    pc,        \* position in the running algorithm
    items,     \* the local `items`: a reference into heap
    loc,       \* locals of the loop sorts: n, end, i, j, swapped, best_idx, current, current_key
    stack,     \* frames of the inner sort/merge functions of merge_sort and quick_sort
    ret,       \* the value returned by the frame popped last
    result,    \* the list the call returned to its caller
    original,  \* history: the caller's sequence when the call started
    applied,   \* history: the key applications of the call, in order
    passes,    \* history: bubble_sort passes started
    swaps,     \* history: swaps of the current bubble_sort pass
    last,      \* history: the call that ended before this one
    sorter,    \* the strategy context: its class
    strategy,  \* the strategy context: the strategy it holds
    held,      \* history: the strategy the context held when the call was made
    via,       \* how the running call was made: "direct", "strategy" or "context"
    args       \* the caller's keyword arguments: [key, reverse]

vars == <<heap, key, reverse, algo, status, pc, items, loc, stack, ret, result,
          original, applied, passes, swaps, last, sorter, strategy, held, via, args>>

NoLoc == [n |-> 0, end |-> 0, i |-> 0, j |-> 0, swapped |-> FALSE,
          best_idx |-> 0, current |-> 0, current_key |-> 0]

k == _normalize_key(key)
Fails(x) == k[x] = Raises
KeyOf(x) == k[x][1]

\* An exception raised by the key function leaves the call: every frame is
\* dropped and nothing is returned.
Raise(xs) ==
    /\ status' = "raised"
    /\ pc' = "raised"
    /\ stack' = <<>>
    /\ applied' = applied \o xs
    /\ UNCHANGED <<heap, key, reverse, algo, items, loc, ret, result,
                   original, passes, swaps, last, sorter, strategy, held, via, args>>

\* ------------------------------------------------------------ function entry
\* The first statements of every algorithm: items = list(data); k = _normalize_key(key).
Enter(a, kwargs, first_pc, l, stk) ==
    /\ status = "idle"
    /\ algo' = a
    /\ key' = kwargs.key
    /\ reverse' = kwargs.reverse
    /\ status' = "running"
    /\ items' = list("data")
    /\ heap' = [heap EXCEPT ![list("data")] = heap["data"]]
    /\ loc' = l
    /\ stack' = stk
    /\ pc' = first_pc
    /\ ret' = <<>>
    /\ result' = <<>>
    /\ original' = heap["data"]
    /\ applied' = <<>>
    /\ passes' = 0
    /\ swaps' = 0
    /\ UNCHANGED <<last, args>>

\* return items
ReturnItems ==
    /\ status' = "returned"
    /\ pc' = "done"
    /\ result' = heap[items]

\* -------------------------------------------------------------- bubble_sort
bubble_sort_enter(kwargs) ==
    Enter("bubble_sort", kwargs, "for_end",
          [NoLoc EXCEPT !.n = Len(heap["data"]), !.end = Len(heap["data"]) - 1], <<>>)

\* for end in range(n - 1, 0, -1): swapped = False
bubble_sort_for_end ==
    /\ status = "running" /\ algo = "bubble_sort" /\ pc = "for_end"
    /\ IF loc.end >= 1
       THEN /\ loc' = [loc EXCEPT !.swapped = FALSE, !.i = 0]
            /\ pc' = "for_i"
            /\ passes' = passes + 1
            /\ swaps' = 0
            /\ UNCHANGED <<status, result>>
       ELSE /\ ReturnItems
            /\ UNCHANGED <<loc, passes, swaps>>
    /\ UNCHANGED <<heap, key, reverse, algo, items, stack, ret, original, applied,
                   last, sorter, strategy, held, via, args>>

\* for i in range(end): if _should_swap(k(items[i]), k(items[i + 1])): swap
bubble_sort_for_i ==
    /\ status = "running" /\ algo = "bubble_sort" /\ pc = "for_i"
    /\ LET a == At(heap[items], loc.i)
           b == At(heap[items], loc.i + 1)
       IN  IF loc.i < loc.end
           THEN IF Fails(a) THEN Raise(<<a>>)
                ELSE IF Fails(b) THEN Raise(<<a, b>>)
                ELSE /\ applied' = applied \o <<a, b>>
                     /\ IF _should_swap(KeyOf(a), KeyOf(b), reverse)
                        THEN /\ heap' = [heap EXCEPT ![items] = Put(Put(@, loc.i, b), loc.i + 1, a)]
                             /\ loc' = [loc EXCEPT !.swapped = TRUE, !.i = @ + 1]
                             /\ swaps' = swaps + 1
                        ELSE /\ loc' = [loc EXCEPT !.i = @ + 1]
                             /\ UNCHANGED <<heap, swaps>>
                     /\ UNCHANGED <<key, reverse, algo, status, pc, items, stack, ret, result,
                                    original, passes, last, sorter, strategy, held, via, args>>
           ELSE /\ pc' = "if_not_swapped"
                /\ UNCHANGED <<heap, key, reverse, algo, status, items, loc, stack, ret, result,
                               original, applied, passes, swaps, last, sorter, strategy, held, via, args>>

\* Mutant of bubble_sort_if_not_swapped: the break is missing.
bubble_sort_if_not_swapped_no_break ==
    /\ status = "running" /\ algo = "bubble_sort" /\ pc = "if_not_swapped"
    /\ loc' = [loc EXCEPT !.end = @ - 1]
    /\ pc' = "for_end"
    /\ UNCHANGED <<heap, key, reverse, algo, status, items, stack, ret, result, original,
                   applied, passes, swaps, last, sorter, strategy, held, via, args>>

\* if not swapped: break
bubble_sort_if_not_swapped ==
    /\ status = "running" /\ algo = "bubble_sort" /\ pc = "if_not_swapped"
    /\ IF ~loc.swapped
       THEN /\ ReturnItems
            /\ UNCHANGED loc
       ELSE /\ loc' = [loc EXCEPT !.end = @ - 1]
            /\ pc' = "for_end"
            /\ UNCHANGED <<status, result>>
    /\ UNCHANGED <<heap, key, reverse, algo, items, stack, ret, original, applied,
                   passes, swaps, last, sorter, strategy, held, via, args>>

\* ----------------------------------------------------------- selection_sort
selection_sort_enter(kwargs) ==
    Enter("selection_sort", kwargs, "for_i", [NoLoc EXCEPT !.n = Len(heap["data"])], <<>>)

\* for i in range(n): best_idx = i
selection_sort_for_i ==
    /\ status = "running" /\ algo = "selection_sort" /\ pc = "for_i"
    /\ IF loc.i < loc.n
       THEN /\ loc' = [loc EXCEPT !.best_idx = loc.i, !.j = loc.i + 1]
            /\ pc' = "for_j"
            /\ UNCHANGED <<status, result>>
       ELSE /\ ReturnItems
            /\ UNCHANGED loc
    /\ UNCHANGED <<heap, key, reverse, algo, items, stack, ret, original, applied,
                   passes, swaps, last, sorter, strategy, held, via, args>>

\* for j in range(i + 1, n): if _should_swap(k(items[best_idx]), k(items[j])): best_idx = j
selection_sort_for_j ==
    /\ status = "running" /\ algo = "selection_sort" /\ pc = "for_j"
    /\ LET a == At(heap[items], loc.best_idx)
           b == At(heap[items], loc.j)
       IN  IF loc.j < loc.n
           THEN IF Fails(a) THEN Raise(<<a>>)
                ELSE IF Fails(b) THEN Raise(<<a, b>>)
                ELSE /\ applied' = applied \o <<a, b>>
                     /\ loc' = [loc EXCEPT
                                  !.best_idx = IF _should_swap(KeyOf(a), KeyOf(b), reverse)
                                               THEN loc.j ELSE @,
                                  !.j = @ + 1]
                     /\ UNCHANGED <<heap, key, reverse, algo, status, pc, items, stack, ret,
                                    result, original, passes, swaps, last, sorter, strategy, held, via, args>>
           ELSE /\ pc' = "if_best_idx"
                /\ UNCHANGED <<heap, key, reverse, algo, status, items, loc, stack, ret, result,
                               original, applied, passes, swaps, last, sorter, strategy, held, via, args>>

\* if best_idx != i: items[i], items[best_idx] = items[best_idx], items[i]
selection_sort_if_best_idx ==
    /\ status = "running" /\ algo = "selection_sort" /\ pc = "if_best_idx"
    /\ LET a == At(heap[items], loc.i)
           b == At(heap[items], loc.best_idx)
       IN  IF loc.best_idx # loc.i
           THEN heap' = [heap EXCEPT ![items] = Put(Put(@, loc.i, b), loc.best_idx, a)]
           ELSE UNCHANGED heap
    /\ loc' = [loc EXCEPT !.i = @ + 1]
    /\ pc' = "for_i"
    /\ UNCHANGED <<key, reverse, algo, status, items, stack, ret, result, original, applied,
                   passes, swaps, last, sorter, strategy, held, via, args>>

\* ----------------------------------------------------------- insertion_sort
\* Mutant of insertion_sort_enter: the loop starts at 0, range(len(items)).
insertion_sort_enter_from_0(kwargs) ==
    Enter("insertion_sort", kwargs, "for_i", [NoLoc EXCEPT !.n = Len(heap["data"])], <<>>)

\* items = list(data); k = _normalize_key(key); the loop starts at i = 1
insertion_sort_enter(kwargs) ==
    Enter("insertion_sort", kwargs, "for_i", [NoLoc EXCEPT !.n = Len(heap["data"]), !.i = 1], <<>>)

\* for i in range(1, len(items)): current = items[i]; current_key = k(current); j = i - 1
insertion_sort_for_i ==
    /\ status = "running" /\ algo = "insertion_sort" /\ pc = "for_i"
    /\ LET c == At(heap[items], loc.i)
       IN  IF loc.i < Len(heap[items])
           THEN IF Fails(c) THEN Raise(<<c>>)
                ELSE /\ applied' = Append(applied, c)
                     /\ loc' = [loc EXCEPT !.current = c, !.current_key = KeyOf(c), !.j = loc.i - 1]
                     /\ pc' = "while"
                     /\ UNCHANGED <<heap, key, reverse, algo, status, items, stack, ret, result,
                                    original, passes, swaps, last, sorter, strategy, held, via, args>>
           ELSE /\ ReturnItems
                /\ UNCHANGED <<heap, key, reverse, algo, items, loc, stack, ret, original,
                               applied, passes, swaps, last, sorter, strategy, held, via, args>>

\* while j >= 0 and _should_swap(k(items[j]), current_key): items[j + 1] = items[j]; j -= 1
\* items[j + 1] = current
insertion_sort_while ==
    /\ status = "running" /\ algo = "insertion_sort" /\ pc = "while"
    /\ LET a == At(heap[items], loc.j)
           place == /\ heap' = [heap EXCEPT ![items] = Put(@, loc.j + 1, loc.current)]
                    /\ loc' = [loc EXCEPT !.i = @ + 1]
                    /\ pc' = "for_i"
       IN  IF loc.j >= 0
           THEN IF Fails(a) THEN Raise(<<a>>)
                ELSE /\ applied' = Append(applied, a)
                     /\ IF _should_swap(KeyOf(a), loc.current_key, reverse)
                        THEN /\ heap' = [heap EXCEPT ![items] = Put(@, loc.j + 1, a)]
                             /\ loc' = [loc EXCEPT !.j = @ - 1]
                             /\ UNCHANGED pc
                        ELSE place
                     /\ UNCHANGED <<key, reverse, algo, status, items, stack, ret, result,
                                    original, passes, swaps, last, sorter, strategy, held, via, args>>
           ELSE /\ place
                /\ UNCHANGED <<key, reverse, algo, status, items, stack, ret, result,
                               original, applied, passes, swaps, last, sorter, strategy, held, via, args>>

\* ------------------------------------------ frames of the inner functions
Frame(fn, seq) == [fn |-> fn, pc |-> "enter", seq |-> seq, left |-> <<>>, middle |-> <<>>,
                   right |-> <<>>, i |-> 0, j |-> 0, result |-> <<>>, pivot_key |-> 0]

Top == stack[Len(stack)]
Pop == SubSeq(stack, 1, Len(stack) - 1)
SetTop(f) == [stack EXCEPT ![Len(stack)] = f]
Call(f, callee) == Append(SetTop(f), callee)

InFrame(a, fn, fpc) ==
    /\ status = "running" /\ algo = a /\ stack # <<>>
    /\ Top.fn = fn /\ Top.pc = fpc

\* What a step inside the inner functions leaves alone.
FrameStep ==
    UNCHANGED <<heap, key, reverse, algo, status, pc, items, loc, result,
                original, passes, swaps, last, sorter, strategy, held, via, args>>

\* return sort(items)
ReturnSorted(a) ==
    /\ status = "running" /\ algo = a /\ pc = "sort" /\ stack = <<>>
    /\ status' = "returned"
    /\ pc' = "done"
    /\ result' = ret
    /\ UNCHANGED <<heap, key, reverse, algo, items, loc, stack, ret, original, applied,
                   passes, swaps, last, sorter, strategy, held, via, args>>

\* --------------------------------------------------------------- merge_sort
merge_sort_enter(kwargs) ==
    Enter("merge_sort", kwargs, "sort", NoLoc, <<Frame("sort", heap["data"])>>)

\* sort: if len(seq) <= 1: return seq
\* (the first seq is items, which holds what data holds)
merge_sort_sort_base ==
    /\ InFrame("merge_sort", "sort", "enter")
    /\ Len(Top.seq) <= 1
    /\ stack' = Pop
    /\ ret' = Top.seq
    /\ UNCHANGED applied
    /\ FrameStep

\* sort: mid = len(seq) // 2; the first argument of merge: sort(seq[:mid])
merge_sort_sort_left ==
    /\ InFrame("merge_sort", "sort", "enter")
    /\ Len(Top.seq) > 1
    /\ LET mid == Len(Top.seq) \div 2
       IN  stack' = Call([Top EXCEPT !.pc = "left", !.i = mid],
                         Frame("sort", Slice(Top.seq, 0, mid)))
    /\ UNCHANGED <<ret, applied>>
    /\ FrameStep

\* sort: the second argument of merge: sort(seq[mid:])
merge_sort_sort_right ==
    /\ InFrame("merge_sort", "sort", "left")
    /\ stack' = Call([Top EXCEPT !.pc = "right", !.left = ret],
                     Frame("sort", Slice(Top.seq, Top.i, Len(Top.seq))))
    /\ UNCHANGED <<ret, applied>>
    /\ FrameStep

\* sort: the call merge(left, right); merge: result = []; i = j = 0
merge_sort_sort_merge ==
    /\ InFrame("merge_sort", "sort", "right")
    /\ stack' = Call([Top EXCEPT !.pc = "merge", !.right = ret],
                     [Frame("merge", <<>>) EXCEPT !.pc = "while", !.left = Top.left, !.right = ret])
    /\ UNCHANGED <<ret, applied>>
    /\ FrameStep

\* merge: while i < len(left) and j < len(right): append the next item;
\* after the loop: result.extend(left[i:]); result.extend(right[j:]); return result
merge_sort_merge_while ==
    /\ InFrame("merge_sort", "merge", "while")
    /\ LET f == Top
           a == At(f.left, f.i)
           b == At(f.right, f.j)
       IN  IF f.i < Len(f.left) /\ f.j < Len(f.right)
           THEN IF Fails(a) THEN Raise(<<a>>)
                ELSE IF Fails(b) THEN Raise(<<a, b>>)
                ELSE /\ applied' = applied \o <<a, b>>
                     /\ IF _should_swap(KeyOf(a), KeyOf(b), reverse)
                        THEN stack' = SetTop([f EXCEPT !.result = Append(@, b), !.j = @ + 1])
                        ELSE stack' = SetTop([f EXCEPT !.result = Append(@, a), !.i = @ + 1])
                     /\ UNCHANGED ret
                     /\ FrameStep
           ELSE /\ stack' = Pop
                /\ ret' = f.result \o Slice(f.left, f.i, Len(f.left))
                                   \o Slice(f.right, f.j, Len(f.right))
                /\ UNCHANGED applied
                /\ FrameStep

\* sort: return merge(...)
merge_sort_sort_return ==
    /\ InFrame("merge_sort", "sort", "merge")
    /\ stack' = Pop
    /\ UNCHANGED <<ret, applied>>
    /\ FrameStep

merge_sort_return == ReturnSorted("merge_sort")

\* --------------------------------------------------------------- quick_sort
quick_sort_enter(kwargs) ==
    Enter("quick_sort", kwargs, "sort", NoLoc, <<Frame("sort", heap["data"])>>)

\* sort: if len(seq) <= 1: return seq
quick_sort_sort_base ==
    /\ InFrame("quick_sort", "sort", "enter")
    /\ Len(Top.seq) <= 1
    /\ stack' = Pop
    /\ ret' = Top.seq
    /\ UNCHANGED applied
    /\ FrameStep

\* The index of the pivot: len(seq) // 2.
PivotIndex(seq) == Len(seq) \div 2

\* sort: pivot = seq[len(seq) // 2]; pivot_key = k(pivot); left, middle, right = [], [], []
quick_sort_sort_pivot ==
    /\ InFrame("quick_sort", "sort", "enter")
    /\ Len(Top.seq) > 1
    /\ LET pivot == At(Top.seq, PivotIndex(Top.seq))
       IN  IF Fails(pivot) THEN Raise(<<pivot>>)
           ELSE /\ stack' = SetTop([Top EXCEPT !.pc = "for_item", !.pivot_key = KeyOf(pivot)])
                /\ applied' = Append(applied, pivot)
                /\ UNCHANGED ret
                /\ FrameStep

\* Mutant of Bucket: a two-way partition, the pivot's equals go left.
Bucket_two_way(item_key, pivot_key, rev) ==
    IF _should_swap(item_key, pivot_key, rev) THEN "right" ELSE "left"

\* The bucket an item with key item_key goes to.
Bucket(item_key, pivot_key, rev) ==
    IF item_key = pivot_key THEN "middle"
    ELSE IF _should_swap(item_key, pivot_key, rev) THEN "right"
    ELSE "left"

\* sort: for item in seq: item_key = k(item); append item to its bucket;
\* after the loop, the first operand of the sum: sort(left)
quick_sort_sort_for_item ==
    /\ InFrame("quick_sort", "sort", "for_item")
    /\ LET f == Top
           item == At(f.seq, f.i)
           b == Bucket(KeyOf(item), f.pivot_key, reverse)
       IN  IF f.i < Len(f.seq)
           THEN IF Fails(item) THEN Raise(<<item>>)
                ELSE /\ applied' = Append(applied, item)
                     /\ stack' = SetTop([f EXCEPT
                            !.i = @ + 1,
                            !.left = IF b = "left" THEN Append(@, item) ELSE @,
                            !.middle = IF b = "middle" THEN Append(@, item) ELSE @,
                            !.right = IF b = "right" THEN Append(@, item) ELSE @])
                     /\ UNCHANGED ret
                     /\ FrameStep
           ELSE /\ stack' = Call([f EXCEPT !.pc = "left"], Frame("sort", f.left))
                /\ UNCHANGED <<ret, applied>>
                /\ FrameStep

\* sort: the last operand of the sum: sort(right)
quick_sort_sort_right ==
    /\ InFrame("quick_sort", "sort", "left")
    /\ stack' = Call([Top EXCEPT !.pc = "right", !.result = ret], Frame("sort", Top.right))
    /\ UNCHANGED <<ret, applied>>
    /\ FrameStep

\* sort: return sort(left) + middle + sort(right)
quick_sort_sort_return ==
    /\ InFrame("quick_sort", "sort", "right")
    /\ stack' = Pop
    /\ ret' = Top.result \o Top.middle \o ret
    /\ UNCHANGED applied
    /\ FrameStep

quick_sort_return == ReturnSorted("quick_sort")

\* ------------------------------------------------------------- the caller
Ended == status \in {"returned", "raised"}

\* The algorithm functions by name.
EnterOf(fn, kwargs) ==
    CASE fn = "bubble_sort" -> bubble_sort_enter(kwargs)
      [] fn = "selection_sort" -> selection_sort_enter(kwargs)
      [] fn = "insertion_sort" -> insertion_sort_enter(kwargs)
      [] fn = "merge_sort" -> merge_sort_enter(kwargs)
      [] fn = "quick_sort" -> quick_sort_enter(kwargs)

NoStrategy == [cls |-> "none", fn |-> "none"]
NoCall == [via |-> "none", held |-> NoStrategy, fn |-> "none", data |-> <<>>,
           status |-> "none", result |-> <<>>]

\* What the caller keeps of a call that ended.
CallRecord == [via |-> via, held |-> held, fn |-> algo, data |-> original,
               status |-> status, result |-> result]

\* out = algo(data, ...): a direct call of an algorithm. A later call sorts
\* the output of the call before it with the same algorithm and arguments.
direct_call(fn) ==
    /\ last.fn \in {"none", fn}
    /\ EnterOf(fn, args)
    /\ via' = "direct"
    /\ UNCHANGED <<sorter, strategy, held>>

\* The caller takes the returned list and passes it as the next call's data.
feed_output ==
    /\ status = "returned" /\ via = "direct"
    /\ last' = CallRecord
    /\ heap' = [heap EXCEPT !["data"] = result]
    /\ status' = "idle"
    /\ UNCHANGED <<key, reverse, algo, pc, items, loc, stack, ret, result,
                   original, applied, passes, swaps, sorter, strategy, held, via, args>>

\* Under a key function an algorithm never compares items, only their keys:
\* an input stands for all its renamings, and the one whose items first occur
\* in increasing order is drawn. Under the default key every input is drawn.
FirstOccurrencesAscend(s) ==
    \A p \in 1..Len(s) : \A x \in 1..(s[p] - 1) : \E q \in 1..(p - 1) : s[q] = x

Occurs(x, s) == \E p \in 1..Len(s) : s[p] = x

\* A key function is applied to items of the input only: of the key functions
\* that agree on the input, the one that raises everywhere else is drawn.
KeyArgsOn(d) == {NoKey} \cup {<<f>> : f \in {g \in KeyFns : \A x \in Items : Occurs(x, d) \/ g[x] = Raises}}

HeapOf(d) == [r \in {"data", "items"} |-> IF r = "data" THEN d ELSE <<>>]

Idle ==
    /\ key = NoKey /\ reverse = FALSE
    /\ algo = "none" /\ status = "idle" /\ pc = "none"
    /\ items = "none" /\ loc = NoLoc /\ stack = <<>> /\ ret = <<>> /\ result = <<>>
    /\ original = <<>> /\ applied = <<>> /\ passes = 0 /\ swaps = 0
    /\ last = NoCall /\ via = "none" /\ held = NoStrategy

Init ==
    /\ heap \in {HeapOf(d) : d \in Inputs}
    /\ args \in [key : KeyArgsOn(heap["data"]), reverse : BOOLEAN]
    /\ args.key = NoKey \/ FirstOccurrencesAscend(heap["data"])
    /\ Idle
    /\ sorter = "none" /\ strategy = NoStrategy

Steps ==
    \/ bubble_sort_for_end
    \/ bubble_sort_for_i
    \/ bubble_sort_if_not_swapped
    \/ selection_sort_for_i
    \/ selection_sort_for_j
    \/ selection_sort_if_best_idx
    \/ insertion_sort_for_i
    \/ insertion_sort_while
    \/ merge_sort_sort_base
    \/ merge_sort_sort_left
    \/ merge_sort_sort_right
    \/ merge_sort_sort_merge
    \/ merge_sort_merge_while
    \/ merge_sort_sort_return
    \/ merge_sort_return
    \/ quick_sort_sort_base
    \/ quick_sort_sort_pivot
    \/ quick_sort_sort_for_item
    \/ quick_sort_sort_right
    \/ quick_sort_sort_return
    \/ quick_sort_return

Next ==
    \/ \E fn \in Algorithms : direct_call(fn)
    \/ Steps
    \/ feed_output

Spec == Init /\ [][Next]_vars

\* A call runs to its end: the code is synchronous and nothing suspends it.
LiveSpec == Init /\ [][Next]_vars /\ WF_vars(Steps)

\* quick_sort alone, called once.
QuickInit == Init

QuickNext ==
    \/ direct_call("quick_sort")
    \/ quick_sort_sort_base
    \/ quick_sort_sort_pivot
    \/ quick_sort_sort_for_item
    \/ quick_sort_sort_right
    \/ quick_sort_sort_return
    \/ quick_sort_return

QuickSpec == QuickInit /\ [][QuickNext]_vars /\ WF_vars(QuickNext)

\* ----------------------------------------------------- the strategy contexts
Sorters == {"SorterABC", "SorterProto", "SorterCallable"}

ABCStrategies == {[cls |-> c, fn |-> "none"] : c \in
    {"BubbleSortABC", "SelectionSortABC", "InsertionSortABC", "MergeSortABC", "QuickSortABC"}}
FunctionSortStrategies == {[cls |-> "FunctionSortStrategy", fn |-> f] : f \in Algorithms}
Functions == {[cls |-> "function", fn |-> f] : f \in Algorithms}

\* The strategies a context is given: SorterABC a SortingStrategyABC, SorterProto
\* any object with a sort method, SorterCallable a sort function.
StrategiesOf(c) ==
    CASE c = "SorterABC" -> ABCStrategies
      [] c = "SorterProto" -> FunctionSortStrategies \cup ABCStrategies
      [] c = "SorterCallable" -> Functions

\* The function a strategy object's sort method calls.
StrategySortFn(s) ==
    CASE s.cls = "BubbleSortABC" -> "bubble_sort"
      [] s.cls = "SelectionSortABC" -> "selection_sort"
      [] s.cls = "InsertionSortABC" -> "insertion_sort"
      [] s.cls = "MergeSortABC" -> "merge_sort"
      [] s.cls = "QuickSortABC" -> "quick_sort"
      [] s.cls = "FunctionSortStrategy" -> s.fn

\* Mutant of Forward: reverse is not passed on, the callee takes its default.
Forward_without_reverse(kwargs) == [key |-> kwargs.key, reverse |-> FALSE]

\* The keyword arguments a sort method passes on: key=key, reverse=reverse.
Forward(kwargs) == [key |-> kwargs.key, reverse |-> kwargs.reverse]

\* strategy.sort(data, key=key, reverse=reverse), or strategy(data, ...) for a function
StrategyCall(s, kwargs) ==
    IF s.cls = "function"
    THEN EnterOf(s.fn, kwargs)
    ELSE EnterOf(StrategySortFn(s), Forward(kwargs))

ContextCall(c) ==
    /\ sorter = c
    /\ StrategyCall(strategy, Forward(args))
    /\ via' = "context"
    /\ held' = strategy
    /\ UNCHANGED <<sorter, strategy>>

\* return self.strategy.sort(data, key=key, reverse=reverse)
SorterABC_sort == ContextCall("SorterABC")
SorterProto_sort == ContextCall("SorterProto")
\* return (self.strategy)(data, key=key, reverse=reverse)
SorterCallable_sort == ContextCall("SorterCallable")

\* The caller calls the held strategy itself, without the context.
strategy_sort ==
    /\ sorter \in Sorters
    /\ StrategyCall(strategy, args)
    /\ via' = "strategy"
    /\ held' = strategy
    /\ UNCHANGED <<sorter, strategy>>

\* sorter.strategy = s, between two calls
set_strategy(s) ==
    /\ status = "idle"
    /\ s \in StrategiesOf(sorter)
    /\ s # strategy
    /\ strategy' = s
    /\ UNCHANGED <<heap, key, reverse, algo, status, pc, items, loc, stack, ret, result,
                   original, applied, passes, swaps, last, sorter, held, via, args>>

\* The caller takes what the call returned or raised; the data stays as it is.
take_result ==
    /\ Ended /\ via \in {"context", "strategy"}
    /\ last' = CallRecord
    /\ status' = "idle"
    /\ UNCHANGED <<heap, key, reverse, algo, pc, items, loc, stack, ret, result,
                   original, applied, passes, swaps, sorter, strategy, held, via, args>>

\* data = [3, 1, 2]
TestData == <<3, 1, 2>>

ContextInit ==
    /\ heap \in {HeapOf(d) : d \in {<<>>, TestData}}
    /\ args \in [key : KeyArgsOn(heap["data"]), reverse : BOOLEAN]
    /\ Idle
    /\ sorter \in Sorters
    /\ strategy \in StrategiesOf(sorter)

ContextNext ==
    \/ SorterABC_sort
    \/ SorterProto_sort
    \/ SorterCallable_sort
    \/ strategy_sort
    \/ \E s \in ABCStrategies \cup FunctionSortStrategies \cup Functions : set_strategy(s)
    \/ Steps
    \/ take_result

ContextSpec == ContextInit /\ [][ContextNext]_vars

\* ------------------------------------------------------------------ claims
\* The key the call's key argument gives an item, read from the argument itself.
ArgFails(x) == key # NoKey /\ key[1][x] = Raises
ArgKey(x) == IF key = NoKey THEN x ELSE key[1][x][1]
AllKeys == Items \cup KeyVals
\* The key function gives every item of s a key.
Keyed(s) == \A p \in 1..Len(s) : ~ArgFails(s[p])

Count(s, x) == Cardinality({p \in 1..Len(s) : s[p] = x})
SameItems(r, o) == Len(r) = Len(o) /\ \A x \in Items : Count(r, x) = Count(o, x)
KeySeq(s) == [p \in 1..Len(s) |-> ArgKey(s[p])]
SameKeys(r, o) == Len(r) = Len(o) /\ \A v \in AllKeys : Count(KeySeq(r), v) = Count(KeySeq(o), v)
NonDecreasing(s) == \A p \in 1..(Len(s) - 1) : s[p] <= s[p + 1]
NonIncreasing(s) == \A p \in 1..(Len(s) - 1) : s[p] >= s[p + 1]
HasTie(s) == \E p, q \in 1..Len(s) : s[p] # s[q] /\ ArgKey(s[p]) = ArgKey(s[q])

\* C1: with the default key and reverse=false every algorithm returns the
\* ascending sort of its input: the same length, the same items as often, in
\* non-decreasing order.
C1_AscendingSort ==
    (status = "returned" /\ key = NoKey /\ ~reverse)
        => /\ SameItems(result, original)
           /\ NonDecreasing(result)

C1_Witness ==
    /\ status = "returned" /\ key = NoKey /\ ~reverse
    /\ Len(original) = MaxLen
    /\ ~NonDecreasing(original)
    /\ \E p \in 1..(MaxLen - 1) : original[p] = original[p + 1]

\* The items with key v, in their order in s.
WithKey(s, v) == LET has(x) == ArgKey(x) = v IN SelectSeq(s, has)
Stable(r, o) == \A v \in AllKeys : WithKey(r, v) = WithKey(o, v)

\* C2 as stated: every algorithm keeps items of equal keys in their input order.
C2_StableAll == (status = "returned" /\ Keyed(original)) => Stable(result, original)

\* C2 as amended: bubble_sort, insertion_sort, merge_sort and quick_sort keep
\* items of equal keys in their input order (selection_sort does not).
C2_StableButSelection ==
    (status = "returned" /\ Keyed(original) /\ algo # "selection_sort")
        => Stable(result, original)

C2_Witness ==
    /\ status = "returned" /\ algo = "quick_sort"
    /\ HasTie(original)
    /\ result # original

\* C3: from the call's first step to its return or failure the caller's
\* sequence is what it was when the call was made, and the list the algorithm
\* writes to is another object.
C3_InputNotMutated ==
    status # "idle" => (heap["data"] = original /\ items # "data")

C3_Witness ==
    /\ status = "raised"
    /\ heap[items] # original

\* C4: the keys of the returned sequence are the keys of the input, in
\* non-increasing order under reverse=true and in non-decreasing order under
\* reverse=false (with the default key an item is its own key; a single item
\* the key function fails on has no key, and is returned as it is).
C4_KeysInRequestedOrder ==
    (status = "returned" /\ Keyed(original))
        => /\ SameKeys(result, original)
           /\ IF reverse THEN NonIncreasing(KeySeq(result)) ELSE NonDecreasing(KeySeq(result))

C4_Witness ==
    /\ status = "returned" /\ reverse /\ key # NoKey
    /\ Len(original) = MaxLen
    /\ ~NonIncreasing(KeySeq(original))

\* The function each strategy stands for.
FnOfStrategy(s) ==
    CASE s.cls \in {"FunctionSortStrategy", "function"} -> s.fn
      [] s.cls = "BubbleSortABC" -> "bubble_sort"
      [] s.cls = "SelectionSortABC" -> "selection_sort"
      [] s.cls = "InsertionSortABC" -> "insertion_sort"
      [] s.cls = "MergeSortABC" -> "merge_sort"
      [] s.cls = "QuickSortABC" -> "quick_sort"

\* C5: a call through a context runs the function of the strategy the context
\* held when the call was made, on the caller's data, key and reverse, and
\* leaves the held strategy as it is; it ends as the call before it ended
\* when one of the two went through the context, the other to the strategy
\* itself, and both had the same strategy, whatever was assigned in between.
C5_ContextForwards ==
    /\ (status # "idle" /\ via = "context")
        => /\ strategy = held
           /\ algo = FnOfStrategy(held)
           /\ key = args.key /\ reverse = args.reverse
           /\ original = heap["data"]
    /\ (Ended /\ {via, last.via} = {"context", "strategy"} /\ last.held = held)
        => (status = last.status /\ result = last.result)

C5_Witness ==
    /\ status = "returned" /\ via = "context" /\ last.via = "strategy"
    /\ last.held = held /\ strategy = held
    /\ held \in {[cls |-> "SelectionSortABC", fn |-> "none"]}
    /\ reverse /\ key # NoKey
    /\ ~Stable(result, original)

\* C6: sorting the output of a call again, with the same algorithm, key and
\* reverse, returns that output.
C6_Idempotent ==
    (status = "returned" /\ via = "direct" /\ last.status = "returned"
        /\ last.fn = algo /\ original = last.result /\ key = args.key /\ reverse = args.reverse)
        => result = last.result

C6_Witness ==
    /\ status = "returned" /\ via = "direct" /\ last.status = "returned"
    /\ last.fn = algo /\ original = last.result
    /\ last.data # last.result
    /\ HasTie(original)
    /\ result = last.result

\* The first item of s the key function fails on is the last item of s.
FirstFailureEnds(s) ==
    /\ s # <<>>
    /\ ArgFails(s[Len(s)])
    /\ \A p \in 1..(Len(s) - 1) : ~ArgFails(s[p])

\* A call returns only if no key application failed, and a call that raised
\* did so at its first failing key application, returning nothing.
C7_FailureInvariant ==
    /\ (status = "returned" /\ Len(original) >= 2) => Keyed(original)
    /\ status = "running" => Keyed(applied)
    /\ status = "raised"
        => /\ FirstFailureEnds(applied)
           /\ result = <<>>
           /\ stack = <<>>
           /\ heap["data"] = original

\* C7: on an input of two or more items, some of which the key function
\* fails on, the call does not return: it is left at the first key application
\* that fails, every frame is dropped, nothing is returned and the caller's
\* sequence is unchanged; and the call does end so.
C7_KeyFailurePropagates ==
    /\ []C7_FailureInvariant
    /\ [](status = "running" /\ Len(original) >= 2 /\ ~Keyed(original)
            => <>(status = "raised"))

C7_Witness ==
    /\ status = "raised"
    /\ Len(original) = MaxLen
    /\ Len(applied) > 2
    /\ heap[items] # original

\* On an input of at most one item no key is applied and nothing is raised.
C8_ShortInputInvariant ==
    (status # "idle" /\ Len(original) <= 1)
        => /\ status # "raised"
           /\ applied = <<>>
           /\ status = "returned" => result = original

\* C8: on an input of at most one item, whatever the key function, no key is
\* applied, the call does not fail, and it ends returning the input.
C8_ShortInputReturned ==
    /\ []C8_ShortInputInvariant
    /\ [](status = "running" /\ Len(original) <= 1 => <>(status = "returned"))

C8_Witness ==
    /\ status = "returned"
    /\ Len(original) = 1
    /\ ArgFails(original[1])
    /\ result = original

\* The input is in the requested order: no adjacent pair is to be swapped.
InRequestedOrder(s) ==
    /\ Keyed(s)
    /\ \A p \in 1..(Len(s) - 1) :
          IF reverse THEN ArgKey(s[p]) >= ArgKey(s[p + 1]) ELSE ArgKey(s[p]) <= ArgKey(s[p + 1])

InBubble == algo = "bubble_sort" /\ status # "idle"

\* The passes of bubble_sort: their number, the pairs pass p scans, and the
\* single pass over an input that is in order.
C9_PassInvariant ==
    InBubble
        => /\ passes <= (IF loc.n = 0 THEN 0 ELSE loc.n - 1)
           /\ pc \in {"for_i", "if_not_swapped"}
                => (passes >= 1 /\ loc.end = loc.n - passes /\ loc.i <= loc.end)
           /\ (status = "returned" /\ Len(original) >= 2 /\ InRequestedOrder(original))
                => (passes = 1 /\ loc.i = Len(original) - 1 /\ swaps = 0
                    /\ Len(applied) = 2 * (Len(original) - 1) /\ result = original)

\* C9: bubble_sort starts a pass only after a pass that swapped (or as its
\* first); pass p compares the pairs at 0..n-p-1 only, and there are at most
\* n-1 passes (none on an empty input); on an input of n >= 2 items already in
\* the requested order it makes one pass of n-1 comparisons and no swap.
C9_BubbleEarlyExit ==
    /\ []C9_PassInvariant
    /\ [][(InBubble /\ passes >= 1 /\ passes' = passes + 1) => swaps >= 1]_vars
    /\ [][(InBubble /\ pc = "if_not_swapped" /\ swaps = 0) => status' = "returned"]_vars
    /\ [][(InBubble /\ pc = "for_i" /\ applied' # applied)
            => (loc.i <= loc.n - passes - 1 /\ heap'[items] \in
                  {heap[items], Put(Put(heap[items], loc.i, At(heap[items], loc.i + 1)),
                                    loc.i + 1, At(heap[items], loc.i))})]_vars

C9_Witness ==
    /\ InBubble /\ status = "returned"
    /\ Len(original) = MaxLen
    /\ passes = 1 /\ swaps = 0
    /\ HasTie(original)

\* The frames of quick_sort's inner sort whose partition loop has ended.
Partitioned(f) == f.fn = "sort" /\ f.pc \in {"left", "right"}

\* The buckets of every finished partition, and the frames of the inner sort.
C10_PartitionInvariant ==
    (algo = "quick_sort" /\ status = "running")
        => /\ \A d \in 1..Len(stack) :
                /\ Partitioned(stack[d])
                    => /\ Occurs(At(stack[d].seq, PivotIndex(stack[d].seq)), stack[d].middle)
                       /\ Len(stack[d].left) < Len(stack[d].seq)
                       /\ Len(stack[d].right) < Len(stack[d].seq)
                       /\ Len(stack[d].left) + Len(stack[d].middle) + Len(stack[d].right)
                              = Len(stack[d].seq)
                /\ d > 1 => Len(stack[d].seq) < Len(stack[d - 1].seq)
           /\ Len(stack) - 1 <= Len(original)
           /\ Len(original) >= 1 => Len(stack) <= Len(original)

\* C10: a partition of two or more items puts the pivot, the item at index
\* len // 2, in the middle bucket, so that the left and the right bucket are
\* shorter than the partitioned sequence; every call of the inner sort below
\* the first sorts fewer items than its caller, the nesting of the calls
\* below the first is at most the length of the input, and quick_sort ends.
C10_QuickSortTerminates ==
    /\ []C10_PartitionInvariant
    /\ <>Ended

C10_Witness ==
    /\ algo = "quick_sort" /\ status = "running"
    /\ Len(original) = MaxLen
    /\ Len(stack) = MaxLen
    /\ reverse /\ key # NoKey

=============================================================================
